---- MODULE Spec2Model ----
(***************************************************************************)
(* Traffic coordination engine of src/src/components/TrafficScene.tsx:     *)
(* the 1-second phase scheduler (phaseInterval), the light-state effect,   *)
(* the per-frame car engine (updateCars / setCarTarget / moveCar) and the  *)
(* respawn policy (resetCar).                                              *)
(*                                                                         *)
(* Units.  Lengths are in thousandths of a world unit (4 world units are   *)
(* 4000), time deltas are in hundredths of a second, so CAR_SPEED = 8.1    *)
(* world units per second is 81 length units per time unit.  The y         *)
(* coordinate is 0 for every car and every target and is left out.         *)
(* Floating point is modelled by fixed point: the only inexact operation   *)
(* of the engine, Vector3.normalize(), is rounded to the length unit.      *)
(***************************************************************************)
EXTENDS Integers, Naturals, Sequences, FiniteSets, TLC

VARIABLES
    trafficPhase,      \* useState trafficPhase: "green" | "yellow" | "red"
    trafficDirection,  \* useState trafficDirection: "horizontal" | "vertical"
    phaseTimer,        \* useState phaseTimer
    trafficLights,     \* trafficLightsRef.current, keyed by light.direction
    cars,              \* carsRef.current, in array order
    effectPending,     \* the light-state useEffect is scheduled, not yet run
    started,           \* the mount effect has made its first animate() call
    elapsed,           \* time of the last animate() call minus the time of the
                       \* last phaseInterval run, in hundredths of a second
    frameDelta,        \* the display's frame period: the delta of every animate()
                       \* call made by requestAnimationFrame
    resets,            \* history: ids of the cars resetCar ran for in the last frame
    resetCount,        \* history: per approach, number of resets so far, modulo 3
    tickCount,         \* history: number of scheduler ticks so far, modulo 22
    sinceOnset,        \* history: scheduler ticks since the last onset of
                       \* horizontal green
    cameraMode,        \* useState cameraMode: "orbit" | "top" | "street"
    isNightMode,       \* useState isNightMode
    mouseIsDown,       \* mouseRef.current.isDown
    callbacks          \* the callbacks that are registered with the browser:
                       \* the requested animation frame, the interval and the
                       \* document's mouse and wheel listeners

vars == <<trafficPhase, trafficDirection, phaseTimer, trafficLights, cars,
          effectPending, started, elapsed, frameDelta, resets, resetCount,
          tickCount, sinceOnset, cameraMode, isNightMode, mouseIsDown,
          callbacks>>

schedVars == <<trafficPhase, trafficDirection, phaseTimer, tickCount, sinceOnset>>

uiVars == <<cameraMode, isNightMode, mouseIsDown>>

----------------------------------------------------------------------------
(* Program constants *)

CAR_SPEED == 81            \* 8.1 world units per second
GREEN_TIME == 8            \* setPhaseTimer(8), useState(8)
YELLOW_TIME == 3           \* setPhaseTimer(3)
EDGE == 4000               \* near edge of the intersection box, +-4
CROSSING_TOLERANCE == 500  \* Math.abs(pos -+ 4) < 0.5
ROAD_END == 16000          \* reset at the end of the road, +-16
LANE_OFFSET == 2000        \* lane centre line, +-2
TARGET_AXIS == 15000       \* axis coordinate of every turn target, +-15
safeDistance == 2000       \* const safeDistance = 2.0
TARGET_REACHED == 1000     \* distanceTo(targetPosition) < 1.0
CYCLE == 2 * (GREEN_TIME + YELLOW_TIME)  \* length of the history counter tickCount

INTERVAL == 100            \* setInterval(..., 1000): one run per second

(* Bound of the model: the frame periods of the display are the multiples *)
(* 1..MaxDeltaUnits of 0.05 s (20 frames per second and slower).           *)
MaxDeltaUnits == 2
Deltas == {5 * k : k \in 1..MaxDeltaUnits}

\* the history counter sinceOnset stops counting at this value
MaxSinceOnset == 2 * CYCLE

Directions == {"north", "south", "east", "west"}
patterns == <<"right", "left", "straight">>
Colors == {"red", "yellow", "green"}

Abs(n) == IF n < 0 THEN -n ELSE n
Vec(px, pz) == [x |-> px, z |-> pz]

----------------------------------------------------------------------------
(* Vector arithmetic of THREE.Vector3 on the ground plane *)

RECURSIVE ISqrtSearch(_, _, _)
ISqrtSearch(n, lo, hi) ==
    \* lo * lo <= n < hi * hi
    IF hi - lo <= 1 THEN lo
    ELSE LET mid == (lo + hi) \div 2
         IN  IF mid * mid <= n THEN ISqrtSearch(n, mid, hi)
                               ELSE ISqrtSearch(n, lo, mid)

\* Math.sqrt rounded down to the length unit
ISqrt(n) == IF n >= 46340 * 46340 THEN 46340 ELSE ISqrtSearch(n, 0, 46340)

\* a / b rounded to the nearest length unit, b > 0
RoundDiv(a, b) == (2 * a + b) \div (2 * b)

\* Vector3.length()
Length(v) ==
    IF v.x = 0 THEN Abs(v.z)
    ELSE IF v.z = 0 THEN Abs(v.x)
    ELSE ISqrt(v.x * v.x + v.z * v.z)

\* a.clone().sub(b)
Sub(a, b) == Vec(a.x - b.x, a.z - b.z)

\* a.clone().add(b)
Add(a, b) == Vec(a.x + b.x, a.z + b.z)

\* v.normalize().multiplyScalar(s): normalize() divides by (length() || 1),
\* so the zero vector stays the zero vector
NormalizeScaled(v, s) ==
    LET n == Length(v)
    IN  IF n = 0 THEN Vec(v.x * s, v.z * s)
        ELSE Vec(RoundDiv(v.x * s, n), RoundDiv(v.z * s, n))

\* a.distanceTo(b) < r, for r > 0
DistanceLess(a, b, r) ==
    LET dx == Abs(a.x - b.x)
        dz == Abs(a.z - b.z)
    IN  /\ dx < r
        /\ dz < r
        /\ dx * dx + dz * dz < r * r

----------------------------------------------------------------------------
(* Fixed geometry *)

\* startPosition of createCar and of resetCar
startPosition(direction) ==
    CASE direction = "north" -> Vec(-LANE_OFFSET, -ROAD_END)
      [] direction = "south" -> Vec(LANE_OFFSET, ROAD_END)
      [] direction = "east"  -> Vec(-ROAD_END, LANE_OFFSET)
      [] direction = "west"  -> Vec(ROAD_END, -LANE_OFFSET)

\* the target table of setCarTarget
TargetOf(direction, turnDirection) ==
    CASE direction = "north" ->
           IF turnDirection = "right" THEN Vec(LANE_OFFSET, TARGET_AXIS)
           ELSE IF turnDirection = "left" THEN Vec(-LANE_OFFSET, -TARGET_AXIS)
           ELSE Vec(-LANE_OFFSET, TARGET_AXIS)
      [] direction = "south" ->
           IF turnDirection = "right" THEN Vec(-LANE_OFFSET, -TARGET_AXIS)
           ELSE IF turnDirection = "left" THEN Vec(LANE_OFFSET, TARGET_AXIS)
           ELSE Vec(LANE_OFFSET, -TARGET_AXIS)
      [] direction = "east" ->
           IF turnDirection = "right" THEN Vec(TARGET_AXIS, LANE_OFFSET)
           ELSE IF turnDirection = "left" THEN Vec(-TARGET_AXIS, -LANE_OFFSET)
           ELSE Vec(TARGET_AXIS, -LANE_OFFSET)
      [] direction = "west" ->
           IF turnDirection = "right" THEN Vec(-TARGET_AXIS, -LANE_OFFSET)
           ELSE IF turnDirection = "left" THEN Vec(TARGET_AXIS, LANE_OFFSET)
           ELSE Vec(-TARGET_AXIS, LANE_OFFSET)

\* setCarTarget(car): car.targetPosition.copy(target)
setCarTarget(car) ==
    [car EXCEPT !.targetPosition = TargetOf(car.direction, car.turnDirection)]

\* allowMove of updateCars: the car is in or past the intersection
allowMove(car) ==
    CASE car.direction = "north" -> car.position.z > -EDGE
      [] car.direction = "south" -> car.position.z < EDGE
      [] car.direction = "east"  -> car.position.x > -EDGE
      [] car.direction = "west"  -> car.position.x < EDGE

\* atCrossing of updateCars: the car is close to the stop line
atCrossing(car) ==
    CASE car.direction = "north" -> Abs(car.position.z + EDGE) < CROSSING_TOLERANCE
      [] car.direction = "south" -> Abs(car.position.z - EDGE) < CROSSING_TOLERANCE
      [] car.direction = "east"  -> Abs(car.position.x + EDGE) < CROSSING_TOLERANCE
      [] car.direction = "west"  -> Abs(car.position.x - EDGE) < CROSSING_TOLERANCE

\* the value of trafficPhase that updateCars reads: animate() is created by
\* the mount effect (dependency list []), so it keeps calling the updateCars
\* closure of the first render, in which trafficPhase is its initial value
closureTrafficPhase == "green"

\* isCarLightGreen of updateCars
isCarLightGreen(lights, car) ==
    /\ car.direction \in DOMAIN lights
    /\ lights[car.direction].state = "green"
    /\ closureTrafficPhase = "green"

\* car === firstWaitingCarInLane: the car is waiting and no car before it in
\* the array is a waiting car of the same direction
isFirstWaitingCarInLane(cs, i) ==
    /\ cs[i].isWaiting
    /\ \A j \in 1..(i - 1) : ~(cs[j].direction = cs[i].direction /\ cs[j].isWaiting)

----------------------------------------------------------------------------
(* Construction *)

\* createTrafficLight: state 'red', nextTurnIndex 0
createTrafficLight(direction) == [state |-> "red", nextTurnIndex |-> 0]

\* createTrafficLights: one light per approach
createTrafficLights == [d \in Directions |-> createTrafficLight(d)]

\* createCar
createCar(direction, id) ==
    [id |-> id,
     direction |-> direction,
     turnDirection |-> patterns[1],
     isWaiting |-> TRUE,
     targetPosition |-> startPosition(direction),
     position |-> startPosition(direction),
     state |-> "waiting"]

\* createInitialCars with carsPerDirection = 1: the offset 3 * i is 0
createInitialCars ==
    <<createCar("north", "car-0"), createCar("south", "car-1"),
      createCar("east", "car-2"), createCar("west", "car-3")>>

----------------------------------------------------------------------------
(* Respawn policy.  The engine's intermediate state is the record          *)
(* [cars, lights, resets]: the car array, the lights and the ids that      *)
(* resetCar has run for during the current frame.                          *)

\* resetCar that reads the turn pattern but does not advance nextTurnIndex
resetCar_NoAdvance(w, i) ==
    LET car == w.cars[i]
        found == car.direction \in DOMAIN w.lights
        turn == IF found THEN patterns[w.lights[car.direction].nextTurnIndex + 1]
                         ELSE patterns[1]
        newCar == [car EXCEPT !.isWaiting = TRUE,
                              !.state = "waiting",
                              !.position = startPosition(car.direction),
                              !.turnDirection = turn,
                              !.targetPosition = startPosition(car.direction)]
    IN  [cars |-> [w.cars EXCEPT ![i] = newCar],
         lights |-> w.lights,
         resets |-> w.resets \cup {car.id}]

\* resetCar that leaves targetPosition at the old waypoint
resetCar_KeepTarget(w, i) ==
    LET car == w.cars[i]
        found == car.direction \in DOMAIN w.lights
        turn == IF found THEN patterns[w.lights[car.direction].nextTurnIndex + 1]
                         ELSE patterns[1]
        newCar == [car EXCEPT !.isWaiting = TRUE,
                              !.state = "waiting",
                              !.position = startPosition(car.direction),
                              !.turnDirection = turn]
        newLights == IF found
                     THEN [w.lights EXCEPT ![car.direction].nextTurnIndex =
                              (w.lights[car.direction].nextTurnIndex + 1) % Len(patterns)]
                     ELSE w.lights
    IN  [cars |-> [w.cars EXCEPT ![i] = newCar],
         lights |-> newLights,
         resets |-> w.resets \cup {car.id}]

\* resetCar that replaces the car by a newly created one
resetCar_NewCar(w, i) ==
    LET car == w.cars[i]
        found == car.direction \in DOMAIN w.lights
        turn == IF found THEN patterns[w.lights[car.direction].nextTurnIndex + 1]
                         ELSE patterns[1]
        newCar == [createCar(car.direction, "car-new") EXCEPT !.turnDirection = turn]
        newLights == IF found
                     THEN [w.lights EXCEPT ![car.direction].nextTurnIndex =
                              (w.lights[car.direction].nextTurnIndex + 1) % Len(patterns)]
                     ELSE w.lights
    IN  [cars |-> [w.cars EXCEPT ![i] = newCar],
         lights |-> newLights,
         resets |-> w.resets \cup {car.id}]

\* resetCar(car) for car = w.cars[i]
resetCar(w, i) ==
    LET car == w.cars[i]
        found == car.direction \in DOMAIN w.lights
        turn == IF found THEN patterns[w.lights[car.direction].nextTurnIndex + 1]
                         ELSE patterns[1]
        newCar == [car EXCEPT !.isWaiting = TRUE,
                              !.state = "waiting",
                              !.position = startPosition(car.direction),
                              !.turnDirection = turn,
                              !.targetPosition = startPosition(car.direction)]
        newLights == IF found
                     THEN [w.lights EXCEPT ![car.direction].nextTurnIndex =
                              (w.lights[car.direction].nextTurnIndex + 1) % Len(patterns)]
                     ELSE w.lights
    IN  [cars |-> [w.cars EXCEPT ![i] = newCar],
         lights |-> newLights,
         resets |-> w.resets \cup {car.id}]

----------------------------------------------------------------------------
(* Motion engine *)

\* nextPosition of moveCar: the position plus the unit vector towards the
\* target scaled by CAR_SPEED * delta
nextPosition(car, delta) ==
    Add(car.position,
        NormalizeScaled(Sub(car.targetPosition, car.position), CAR_SPEED * delta))

\* a collision scan that looks only at the cars in state moving
collisionDetected_MovingOnly(cs, i, delta) ==
    LET next == nextPosition(cs[i], delta)
    IN  \E j \in 1..Len(cs) :
            /\ cs[i].id # cs[j].id
            /\ cs[j].state = "moving"
            /\ DistanceLess(next, cs[j].position, safeDistance)

\* the collision scan of moveCar
collisionDetected(cs, i, delta) ==
    LET next == nextPosition(cs[i], delta)
    IN  \E j \in 1..Len(cs) :
            /\ cs[i].id # cs[j].id
            /\ ~cs[j].isWaiting
            /\ DistanceLess(next, cs[j].position, safeDistance)

\* a commit of the candidate position instead of the step along the axis
advance_Candidate(car, delta) ==
    [car EXCEPT !.position = nextPosition(car, delta)]

\* the switch of moveCar: the car advances along its own travel axis
advance(car, delta) ==
    CASE car.direction = "north" ->
           [car EXCEPT !.position.z = car.position.z + CAR_SPEED * delta]
      [] car.direction = "south" ->
           [car EXCEPT !.position.z = car.position.z - CAR_SPEED * delta]
      [] car.direction = "east" ->
           [car EXCEPT !.position.x = car.position.x + CAR_SPEED * delta]
      [] car.direction = "west" ->
           [car EXCEPT !.position.x = car.position.x - CAR_SPEED * delta]

\* the end-of-road tests of moveCar
atRoadEnd(car) ==
    CASE car.direction = "north" -> car.position.z >= ROAD_END
      [] car.direction = "south" -> car.position.z <= -ROAD_END
      [] car.direction = "east"  -> car.position.x >= ROAD_END
      [] car.direction = "west"  -> car.position.x <= -ROAD_END

\* the target-reached test of moveCar
targetReached(car) ==
    /\ car.direction \in {"north", "south"}
    /\ DistanceLess(car.position, car.targetPosition, TARGET_REACHED)

\* moveCar whose veto branch puts the car into the waiting queue
moveCar_VetoWaits(w, i, delta) ==
    IF ~collisionDetected(w.cars, i, delta)
    THEN LET moved == advance(w.cars[i], delta)
             w1 == [w EXCEPT !.cars[i] = moved]
         IN  IF atRoadEnd(moved) THEN resetCar(w1, i)
             ELSE LET w2 == [w1 EXCEPT !.cars[i].state = "moving"]
                  IN  IF targetReached(w2.cars[i]) THEN resetCar(w2, i) ELSE w2
    ELSE [w EXCEPT !.cars[i].state = "waiting", !.cars[i].isWaiting = TRUE]

\* moveCar(car, delta) for car = w.cars[i]
\* moveCar without the assignment car.state = 'moving' after the step
moveCar_KeepsState(w, i, delta) ==
    IF ~collisionDetected(w.cars, i, delta)
    THEN LET moved == advance(w.cars[i], delta)
             w1 == [w EXCEPT !.cars[i] = moved]
         IN  IF atRoadEnd(moved) THEN resetCar(w1, i)
             ELSE IF targetReached(w1.cars[i]) THEN resetCar(w1, i) ELSE w1
    ELSE [w EXCEPT !.cars[i].state = "stopped", !.cars[i].isWaiting = FALSE]

moveCar(w, i, delta) ==
    IF ~collisionDetected(w.cars, i, delta)
    THEN LET moved == advance(w.cars[i], delta)
             w1 == [w EXCEPT !.cars[i] = moved]
         IN  IF atRoadEnd(moved) THEN resetCar(w1, i)
             ELSE LET w2 == [w1 EXCEPT !.cars[i].state = "moving"]
                  IN  IF targetReached(w2.cars[i]) THEN resetCar(w2, i) ELSE w2
    ELSE [w EXCEPT !.cars[i].state = "stopped", !.cars[i].isWaiting = FALSE]

\* mayMove without the test that the car is already in the intersection
mayMove_NoAllowMove(w, i) ==
    \/ (isCarLightGreen(w.lights, w.cars[i]) /\ isFirstWaitingCarInLane(w.cars, i))
    \/ (~isCarLightGreen(w.lights, w.cars[i]) /\ ~atCrossing(w.cars[i]))

\* mayMove that lets a car roll on a light that is not green wherever it is
mayMove_IgnoresStopLine(w, i) ==
    \/ allowMove(w.cars[i])
    \/ (isCarLightGreen(w.lights, w.cars[i]) /\ isFirstWaitingCarInLane(w.cars, i))
    \/ ~isCarLightGreen(w.lights, w.cars[i])

\* the condition under which updateCars lets the car move
mayMove(w, i) ==
    \/ allowMove(w.cars[i])
    \/ (isCarLightGreen(w.lights, w.cars[i]) /\ isFirstWaitingCarInLane(w.cars, i))
    \/ (~isCarLightGreen(w.lights, w.cars[i]) /\ ~atCrossing(w.cars[i]))

\* updateCar that releases a waiting car without calling setCarTarget
updateCar_KeepsTarget(w, i, delta) ==
    IF mayMove(w, i)
    THEN moveCar([w EXCEPT !.cars[i].isWaiting = FALSE], i, delta)
    ELSE [w EXCEPT !.cars[i].isWaiting = TRUE, !.cars[i].state = "waiting"]

\* the body of the forEach of updateCars for car = w.cars[i]
updateCar(w, i, delta) ==
    IF mayMove(w, i)
    THEN LET w1 == IF w.cars[i].isWaiting
                   THEN [w EXCEPT !.cars[i] =
                            setCarTarget([w.cars[i] EXCEPT !.isWaiting = FALSE])]
                   ELSE w
         IN  moveCar(w1, i, delta)
    ELSE [w EXCEPT !.cars[i].isWaiting = TRUE, !.cars[i].state = "waiting"]

RECURSIVE updateCarsFrom(_, _, _)
updateCarsFrom(w, i, delta) ==
    IF i > Len(w.cars) THEN w
    ELSE updateCarsFrom(updateCar(w, i, delta), i + 1, delta)

\* updateCars(delta): the cars are updated one after the other in array order
updateCars(cs, lights, delta) ==
    updateCarsFrom([cars |-> cs, lights |-> lights, resets |-> {}], 1, delta)

----------------------------------------------------------------------------
(* Phase scheduler *)

\* the updater passed to setTrafficDirection
flipDirection(dir) == IF dir = "horizontal" THEN "vertical" ELSE "horizontal"

\* phaseTransition that commits the 'red' returned at yellow expiry and
\* leaves the change to green to the next expiry
phaseTransition_CommitsRed(phase, dir) ==
    IF phase = "green"
    THEN {[phase |-> "yellow", dir |-> dir, timer |-> YELLOW_TIME]}
    ELSE IF phase = "yellow"
    THEN {[phase |-> "red", dir |-> flipDirection(dir), timer |-> YELLOW_TIME]}
    ELSE {[phase |-> "green", dir |-> dir, timer |-> GREEN_TIME]}

\* phaseTransition that hands the axis over at the end of green
phaseTransition_FlipAtGreenExpiry(phase, dir) ==
    IF phase = "green"
    THEN {[phase |-> "yellow", dir |-> flipDirection(dir), timer |-> YELLOW_TIME]}
    ELSE {[phase |-> "green", dir |-> dir, timer |-> GREEN_TIME]}

\* The state React commits for one run of the phaseInterval callback.  All
\* setState calls of the callback, the nested ones included, are batched
\* into one render: on green expiry the updater returns 'yellow' and the
\* timer is set to 3; on yellow expiry the 'red' the updater returns is
\* replaced by the setTrafficPhase('green') and setPhaseTimer(8) queued
\* by the direction updater; the 'red' branch sets the timer to 8 and
\* returns 'green', and the outer updater's return value 3 is queued
\* either before or after that 8.
phaseTransition(phase, dir) ==
    IF phase = "green"
    THEN {[phase |-> "yellow", dir |-> dir, timer |-> YELLOW_TIME]}
    ELSE IF phase = "yellow"
    THEN {[phase |-> "green", dir |-> flipDirection(dir), timer |-> GREEN_TIME]}
    ELSE {[phase |-> "green", dir |-> dir, timer |-> t] : t \in {YELLOW_TIME, GREEN_TIME}}

\* phaseIntervalResult with the expiry test prev <= 0
phaseIntervalResult_LateExpiry(prev, phase, dir) ==
    IF prev <= 0 THEN phaseTransition(phase, dir)
    ELSE {[phase |-> phase, dir |-> dir, timer |-> prev - 1]}

\* the setPhaseTimer updater of phaseInterval
phaseIntervalResult(prev, phase, dir) ==
    IF prev <= 1 THEN phaseTransition(phase, dir)
    ELSE {[phase |-> phase, dir |-> dir, timer |-> prev - 1]}

\* isActive of the light-state effect
isActive(dir, lightDirection) ==
    \/ (dir = "horizontal" /\ lightDirection \in {"east", "west"})
    \/ (dir = "vertical" /\ lightDirection \in {"north", "south"})

\* lightStates that builds the light records anew
lightStates_NewLights(lights, phase, dir) ==
    [d \in DOMAIN lights |->
        [createTrafficLight(d) EXCEPT !.state = IF isActive(dir, d) THEN phase ELSE "red"]]

\* the light-state effect: active lights take trafficPhase, the others red
lightStates(lights, phase, dir) ==
    [d \in DOMAIN lights |->
        [lights[d] EXCEPT !.state = IF isActive(dir, d) THEN phase ELSE "red"]]

----------------------------------------------------------------------------
(* Callbacks registered with the browser *)

\* setupMouseControls: the four listeners added to document
mouseListeners == {"mousedown", "mousemove", "mouseup", "wheel"}

\* the component is mounted as long as the cleanup of the mount effect has
\* not run: the cleanup is the only code that releases the interval
mounted == ~started \/ "phaseInterval" \in callbacks

----------------------------------------------------------------------------
(* State machine *)

Init ==
    /\ trafficPhase = "green"
    /\ trafficDirection = "horizontal"
    /\ phaseTimer = GREEN_TIME
    /\ trafficLights = createTrafficLights
    /\ cars = createInitialCars
    /\ effectPending = "scheduled"
    /\ started = FALSE
    /\ elapsed = 0
    /\ frameDelta \in Deltas
    /\ resets = {}
    /\ resetCount = [d \in Directions |-> 0]
    /\ tickCount = 0
    /\ sinceOnset = 0
    /\ cameraMode = "orbit"
    /\ isNightMode = FALSE
    /\ mouseIsDown = FALSE
    /\ callbacks = mouseListeners

\* the effect of one animate() call on the cars and the lights
Animate(delta) ==
    LET w == updateCars(cars, trafficLights, delta)
    IN  /\ cars' = w.cars
        /\ trafficLights' = w.lights
        /\ resets' = w.resets
        /\ resetCount' = [d \in Directions |->
              (resetCount[d] + Cardinality({i \in 1..Len(cars) :
                  cars[i].direction = d /\ cars[i].id \in w.resets})) % Len(patterns)]

\* the animate() call the mount effect makes itself: lastTime was read just
\* before, so delta is 0; the light-state effect has not run yet, it is the
\* next effect of the same commit and runs before any other callback
FirstFrame ==
    /\ ~started
    /\ started' = TRUE
    /\ Animate(0)
    /\ callbacks' = callbacks \cup {"animate", "phaseInterval"}
    /\ effectPending' = "overdue"
    /\ UNCHANGED <<schedVars, elapsed, frameDelta, uiVars>>

\* animate() as a requestAnimationFrame callback: delta is the time since
\* the previous call, the frame period.  A frame that is due before the
\* next phaseInterval run comes before it (either order when both are due
\* at the same time), and a scheduled light-state effect is run before the
\* second frame after its commit.
Frame ==
    /\ started
    /\ "animate" \in callbacks
    /\ effectPending # "overdue"
    /\ elapsed + frameDelta <= INTERVAL
    /\ elapsed' = elapsed + frameDelta
    /\ Animate(frameDelta)
    /\ effectPending' = IF effectPending = "scheduled" THEN "overdue" ELSE effectPending
    /\ UNCHANGED <<schedVars, started, frameDelta, uiVars, callbacks>>

\* the light-state useEffect, run after the mount effect and after every
\* commit that changed trafficPhase or trafficDirection
LightEffect ==
    /\ started
    /\ mounted
    /\ effectPending # "none"
    /\ trafficLights' = lightStates(trafficLights, trafficPhase, trafficDirection)
    /\ effectPending' = "none"
    /\ resets' = {}
    /\ UNCHANGED <<schedVars, cars, started, elapsed, frameDelta, resetCount,
                   uiVars, callbacks>>

\* one run of the phaseInterval callback, one second after the previous
\* one, and the commit of its updates; React runs the effects of the
\* previous commit before it renders
SchedulerTick ==
    /\ started
    /\ "phaseInterval" \in callbacks
    /\ effectPending = "none"
    /\ elapsed + frameDelta >= INTERVAL
    /\ elapsed' = elapsed - INTERVAL
    /\ \E r \in phaseIntervalResult(phaseTimer, trafficPhase, trafficDirection) :
          /\ trafficPhase' = r.phase
          /\ trafficDirection' = r.dir
          /\ phaseTimer' = r.timer
          /\ effectPending' = IF r.phase # trafficPhase \/ r.dir # trafficDirection
                              THEN "scheduled" ELSE "none"
          /\ sinceOnset' = IF r.phase = "green" /\ r.dir = "horizontal"
                                /\ ~(trafficPhase = "green" /\ trafficDirection = "horizontal")
                             THEN 0
                             ELSE IF sinceOnset < MaxSinceOnset THEN sinceOnset + 1
                             ELSE sinceOnset
    /\ tickCount' = (tickCount + 1) % CYCLE
    /\ resets' = {}
    /\ UNCHANGED <<trafficLights, cars, started, frameDelta, resetCount,
                   uiVars, callbacks>>

Next == FirstFrame \/ Frame \/ LightEffect \/ SchedulerTick

Spec == Init /\ [][Next]_vars

\* the clock part of FirstFrame and of Frame: the steps of Next that
\* satisfy them are exactly the FirstFrame steps and the Frame steps
FirstFrameClock == ~started /\ started' = TRUE
FrameClock ==
    /\ started
    /\ "animate" \in callbacks
    /\ effectPending # "overdue"
    /\ elapsed + frameDelta <= INTERVAL
    /\ elapsed' = elapsed + frameDelta

\* The browser keeps calling the requested animation frame and the interval,
\* and React runs a scheduled effect: each of them is taken if it stays due.
SpecFair ==
    /\ Init
    /\ [][Next]_vars
    /\ WF_started(FirstFrameClock)
    /\ WF_elapsed(FrameClock)
    /\ WF_vars(LightEffect)
    /\ WF_vars(SchedulerTick)

----------------------------------------------------------------------------
(* Teardown and the document listeners.  The pointer coordinates and the   *)
(* camera transform that the listeners also write are not part of the      *)
(* model; of the four listeners, mousedown and mouseup write the state      *)
(* that is.  No listener runs before the mount effect has returned.         *)

\* the callbacks the cleanup of the mount effect releases:
\* cancelAnimationFrame(animationIdRef.current) and clearInterval(phaseInterval)
released == {"animate", "phaseInterval"}

\* the cleanup function of the mount effect, run when the component is
\* unmounted; React runs the effects of the previous commit before it
\* renders the unmount
Cleanup ==
    /\ started
    /\ mounted
    /\ effectPending = "none"
    /\ callbacks' = callbacks \ released
    /\ UNCHANGED <<schedVars, trafficLights, cars, effectPending, started, elapsed,
                   frameDelta, resets, resetCount, uiVars>>

\* handleMouseDown, the document's mousedown listener
MouseDown ==
    /\ started
    /\ "mousedown" \in callbacks
    /\ mouseIsDown' = TRUE
    /\ UNCHANGED <<schedVars, trafficLights, cars, effectPending, started, elapsed,
                   frameDelta, resets, resetCount, cameraMode, isNightMode, callbacks>>

\* handleMouseUp, the document's mouseup listener
MouseUp ==
    /\ started
    /\ "mouseup" \in callbacks
    /\ mouseIsDown' = FALSE
    /\ UNCHANGED <<schedVars, trafficLights, cars, effectPending, started, elapsed,
                   frameDelta, resets, resetCount, cameraMode, isNightMode, callbacks>>

NextTeardown == Next \/ Cleanup \/ MouseDown \/ MouseUp

SpecTeardown == Init /\ [][NextTeardown]_vars

----------------------------------------------------------------------------
(* The two commands of the control panel *)

CameraModes == {"orbit", "top", "street"}

\* The light-state effect has run at least once: createTrafficLight makes
\* every light red and every run of the effect gives the active axis the
\* phase, which is never red.  The effects of the mount commit run in one
\* pass, so no click is handled between the mount effect and that first run.
lightEffectHasRun == \E d \in DOMAIN trafficLights : trafficLights[d].state # "red"

\* The light states after the render of a click: React runs the effects that
\* are still pending from the previous commit before it renders the update
flushedLights ==
    IF effectPending # "none"
    THEN lightStates(trafficLights, trafficPhase, trafficDirection)
    ELSE trafficLights

\* toggleNightMode: setIsNightMode(prev => !prev); setupLighting adds lamps
\* to the scene, which is not part of the model
ToggleNightMode ==
    /\ started
    /\ mounted
    /\ lightEffectHasRun
    /\ isNightMode' = ~isNightMode
    /\ trafficLights' = flushedLights
    /\ resets' = IF effectPending # "none" THEN {} ELSE resets
    /\ effectPending' = "none"
    /\ UNCHANGED <<schedVars, cars, started, elapsed,
                   frameDelta, resetCount, cameraMode, mouseIsDown, callbacks>>

\* onClick of a camera button: setCameraMode(mode)
SetCameraMode ==
    /\ started
    /\ mounted
    /\ lightEffectHasRun
    /\ \E mode \in CameraModes : cameraMode' = mode
    /\ trafficLights' = flushedLights
    /\ resets' = IF effectPending # "none" THEN {} ELSE resets
    /\ effectPending' = "none"
    /\ UNCHANGED <<schedVars, cars, started, elapsed,
                   frameDelta, resetCount, isNightMode, mouseIsDown, callbacks>>

NextUI == Next \/ SetCameraMode \/ ToggleNightMode

SpecUI == Init /\ [][NextUI]_vars

----------------------------------------------------------------------------
(* The first seconds of the simulation with a frame period that changes    *)
(* from frame to frame: animate() takes delta from performance.now(), the  *)
(* time since the previous call, which the browser does not keep constant. *)

MaxJitterTicks == 3

\* the time to the next animate() call becomes another one of the periods
ChangeFrameRate ==
    /\ started
    /\ tickCount < MaxJitterTicks
    /\ \E d \in Deltas \ {frameDelta} : frameDelta' = d
    /\ UNCHANGED <<schedVars, trafficLights, cars, effectPending, started, elapsed,
                   resets, resetCount, uiVars, callbacks>>

NextJitter == ChangeFrameRate \/ (tickCount < MaxJitterTicks /\ Next)

SpecJitter == Init /\ [][NextJitter]_vars

----------------------------------------------------------------------------

TypeOK ==
    /\ trafficPhase \in Colors
    /\ trafficDirection \in {"horizontal", "vertical"}
    /\ phaseTimer \in 1..GREEN_TIME
    /\ effectPending \in {"none", "scheduled", "overdue"}
    /\ started \in BOOLEAN

----------------------------------------------------------------------------
(* Vocabulary of the properties *)

CarIndex == 1..Len(cars)
NonRed(d) == trafficLights[d].state # "red"

\* the scheduler state after k runs of phaseInterval, 0 <= k < CYCLE
ExpectedSchedule(k) ==
    LET half == GREEN_TIME + YELLOW_TIME
        j == k % half
    IN  [dir |-> IF k < half THEN "horizontal" ELSE "vertical",
         phase |-> IF j < GREEN_TIME THEN "green" ELSE "yellow",
         timer |-> IF j < GREEN_TIME THEN GREEN_TIME - j ELSE half - j]

\* the position of a car in the array as the frame's loop reaches car i:
\* the cars before it have been updated, the others have not
SeenBy(i, j) == IF j < i THEN cars'[j] ELSE cars[j]

\* the candidate position of car i in a frame of the current frame period
Candidate(i) == nextPosition(cars[i], frameDelta)

\* the coordinate of a car along its travel axis, growing in travel direction
AxisCoordinate(car) ==
    CASE car.direction = "north" -> car.position.z
      [] car.direction = "south" -> -car.position.z
      [] car.direction = "east"  -> car.position.x
      [] car.direction = "west"  -> -car.position.x

\* the coordinate of a car across its travel axis
CrossCoordinate(car) ==
    IF car.direction \in {"north", "south"} THEN car.position.x ELSE car.position.z

\* the step moves car i by CAR_SPEED * delta along its travel axis and
\* leaves its other coordinate unchanged
AdvancedAlongAxis(i) ==
    /\ AxisCoordinate(cars'[i]) = AxisCoordinate(cars[i]) + CAR_SPEED * frameDelta
    /\ CrossCoordinate(cars'[i]) = CrossCoordinate(cars[i])

\* the step is an animate() call made by requestAnimationFrame
IsFrameStep == started /\ elapsed' = elapsed + frameDelta

\* the light of car i's approach is not green when the frame reads it
LightNotGreen(i) == trafficLights[cars[i].direction].state # "green"

\* the frame holds car i: it is waiting and has not been touched otherwise
Held(i) ==
    /\ cars'[i].isWaiting
    /\ cars'[i].state = "waiting"
    /\ cars'[i].position = cars[i].position
    /\ cars'[i].targetPosition = cars[i].targetPosition
    /\ cars'[i].turnDirection = cars[i].turnDirection

\* the step is a run of the phaseInterval callback
IsSchedulerStep == tickCount' # tickCount

\* the car is inside the intersection box |x| < 4, |z| < 4
InBox(car) == Abs(car.position.x) < EDGE /\ Abs(car.position.z) < EDGE

\* the step resets a car of direction d
ResetsOn(d) == \E j \in CarIndex : cars[j].direction = d /\ cars[j].id \in resets'

\* the scheduler gives green to the horizontal axis
HorizontalGreen == trafficDirection = "horizontal" /\ trafficPhase = "green"

\* the length of the light cycle the tips panel announces, in seconds
AnnouncedCycle == 15

\* the core: the cars, the lights and the scheduler state
coreVars == <<cars, trafficLights, trafficPhase, trafficDirection, phaseTimer>>

\* the step is an animate() call: the one of the mount effect or one made
\* by requestAnimationFrame
IsAnimateStep == (~started /\ started') \/ IsFrameStep

\* the car array as the frame's loop reaches car i
CarsSeenBy(i) == [j \in CarIndex |-> SeenBy(i, j)]

\* updateCars calls moveCar for car i in this frame
Released(i) == mayMove([cars |-> CarsSeenBy(i), lights |-> trafficLights], i)

\* the car array as moveCar finds it when it is called for car i: the car
\* has been released, with its target set, if it was waiting
AsReleased(i) ==
    [CarsSeenBy(i) EXCEPT ![i] =
        IF cars[i].isWaiting
        THEN setCarTarget([cars[i] EXCEPT !.isWaiting = FALSE])
        ELSE cars[i]]

\* the candidate position moveCar checks for car i in this frame
CheckedPosition(i) == nextPosition(AsReleased(i)[i], frameDelta)

\* moveCar is called for car i in this frame and finds a collision
Vetoed(i) == Released(i) /\ collisionDetected(AsReleased(i), i, frameDelta)

\* moveCar is called for car i in this frame and finds no collision
Unhindered(i) == Released(i) /\ ~collisionDetected(AsReleased(i), i, frameDelta)

\* another car that is not waiting when car i is processed is within the
\* safe distance of the position moveCar checks for car i
Blocked(i) ==
    \E j \in CarIndex :
        /\ j # i
        /\ ~SeenBy(i, j).isWaiting
        /\ DistanceLess(CheckedPosition(i), SeenBy(i, j).position, safeDistance)


----------------------------------------------------------------------------
\* C1: no north/south light is non-red while an east/west light is non-red,
\* and the lights of the axis that is not the scheduler's active axis are
\* red, in every reachable state.
C1_MutualExclusion ==
    /\ ~(\E a \in {"north", "south"}, b \in {"east", "west"} : NonRed(a) /\ NonRed(b))
    /\ \A d \in DOMAIN trafficLights :
          ~isActive(trafficDirection, d) => trafficLights[d].state = "red"

\* C2: after k scheduler runs the scheduler state is the k-th state of the
\* cycle 8 x green, 3 x yellow on the horizontal axis, then the same on the
\* vertical axis; the cycle has period 22 and the axis alternates every 11.
C2_PhaseCycle ==
    LET e == ExpectedSchedule(tickCount)
    IN  /\ trafficDirection = e.dir
        /\ trafficPhase = e.phase
        /\ phaseTimer = e.timer

\* the last state of the cycle: the third yellow second of the vertical axis
C2_Witness ==
    /\ tickCount = CYCLE - 1
    /\ trafficDirection = "vertical"
    /\ trafficPhase = "yellow"
    /\ phaseTimer = 1

\* C3: a car that has not crossed the near edge of the intersection crosses
\* it during a frame only if its approach's light is green in that frame.
C3_CarsObeyLights ==
    [][\A i \in CarIndex :
          (~allowMove(cars[i]) /\ allowMove(cars'[i])) =>
              trafficLights[cars[i].direction].state = "green"]_vars

\* C4: a car that has crossed the near intersection edge is not set to
\* isWaiting = TRUE by a frame unless that frame resets it.
C4_NoMidIntersectionFreeze ==
    [][\A i \in CarIndex :
          (allowMove(cars[i]) /\ cars[i].id \notin resets') => ~cars'[i].isWaiting]_vars

\* a car is inside or past the intersection while its light is red
C4_Witness ==
    \E i \in CarIndex :
        /\ allowMove(cars[i])
        /\ ~cars[i].isWaiting
        /\ trafficLights[cars[i].direction].state = "red"
        /\ started
        /\ effectPending = "none"

\* C5 (as stated): in a frame in which the candidate next positions of two
\* non-waiting cars are within 2.0 of each other, neither car commits a new
\* position.
C5_Original ==
    [][\A i, j \in CarIndex :
          (/\ i # j
           /\ ~cars[i].isWaiting /\ ~cars[j].isWaiting
           /\ DistanceLess(Candidate(i), Candidate(j), safeDistance)) =>
              /\ cars'[i].position = cars[i].position
              /\ cars'[j].position = cars[j].position]_vars

\* C5 (amended): in a frame in which two non-waiting cars are both let to
\* move and the candidate next position of each is within 2.0 of the other
\* car's current position, neither car commits a new position.
C5_CollisionVeto ==
    [][\A i, j \in CarIndex :
          (/\ i # j
           /\ ~cars[i].isWaiting /\ ~cars[j].isWaiting
           /\ mayMove([cars |-> cars, lights |-> trafficLights], i)
           /\ mayMove([cars |-> cars, lights |-> trafficLights], j)
           /\ DistanceLess(Candidate(i), cars[j].position, safeDistance)
           /\ DistanceLess(Candidate(j), cars[i].position, safeDistance)
           /\ IsFrameStep) =>
              /\ cars'[i].position = cars[i].position
              /\ cars'[j].position = cars[j].position]_vars

\* two cars have vetoed each other: both are stopped and the candidate of
\* each is within 2.0 of the other
C5_Witness ==
    \E i, j \in CarIndex :
        /\ i # j
        /\ cars[i].state = "stopped" /\ cars[j].state = "stopped"
        /\ DistanceLess(Candidate(i), cars[j].position, safeDistance)
        /\ DistanceLess(Candidate(j), cars[i].position, safeDistance)

\* C6: any two distinct cars that both have isWaiting = FALSE are at least
\* 2.0 apart at every frame boundary.
C6_SafeDistance ==
    \A i, j \in CarIndex :
        (i # j /\ ~cars[i].isWaiting /\ ~cars[j].isWaiting) =>
            ~DistanceLess(cars[i].position, cars[j].position, safeDistance)

\* C8: the k-th reset on an approach assigns the k-th value of the cycle
\* right, left, straight (period 3, starting with right), whatever the
\* other approaches and the scheduler have done.
C8_RespawnRoundRobin ==
    \A i \in CarIndex :
        cars[i].id \in resets =>
            cars[i].turnDirection =
                patterns[((resetCount[cars[i].direction] + Len(patterns) - 1) % Len(patterns)) + 1]

\* the north car has just been reset for the third time of a cycle while
\* the east approach is at another point of its own cycle
C8_Witness ==
    /\ "car-0" \in resets
    /\ cars[1].turnDirection = "straight"
    /\ resetCount["north"] = 0
    /\ resetCount["east"] = 2
    /\ tickCount > 0

\* C9: a car that has just been reset is at its direction's spawn
\* coordinate, with targetPosition equal to it, isWaiting = TRUE and state
\* waiting; and no car is left at or past its exit threshold by a frame.
C9_ResetRoundTrip ==
    \A i \in CarIndex :
        /\ cars[i].id \in resets =>
              /\ cars[i].position = startPosition(cars[i].direction)
              /\ cars[i].targetPosition = startPosition(cars[i].direction)
              /\ cars[i].isWaiting
              /\ cars[i].state = "waiting"
        /\ ~atRoadEnd(cars[i])

\* the east car, which is reset only at the end of the road, has been reset
C9_Witness ==
    \E i \in CarIndex :
        /\ cars[i].direction = "east"
        /\ cars[i].id \in resets
        /\ cars[i].position = Vec(-ROAD_END, LANE_OFFSET)

\* C10 (as stated): a car past the near edge with no other non-waiting car
\* within the safe radius of it advances by exactly CAR_SPEED * delta along
\* its travel axis in every frame, or is reset.
C10_Original ==
    [][\A i \in CarIndex :
          (/\ allowMove(cars[i])
           /\ IsFrameStep
           /\ ~\E j \in CarIndex :
                 /\ j # i
                 /\ ~cars[j].isWaiting
                 /\ DistanceLess(cars[i].position, cars[j].position, safeDistance)) =>
              \/ cars[i].id \in resets'
              \/ AdvancedAlongAxis(i)]_vars

\* C10 (amended): a car past the near edge advances by exactly
\* CAR_SPEED * delta along its travel axis, its other coordinate unchanged,
\* or is reset, in every frame in which no other car that is non-waiting
\* when the car is processed is within the safe radius of the car's
\* candidate next position.
C10_ConstantSpeed ==
    [][\A i \in CarIndex :
          (/\ allowMove(cars[i])
           /\ IsFrameStep
           /\ ~\E j \in CarIndex :
                 /\ j # i
                 /\ ~SeenBy(i, j).isWaiting
                 /\ DistanceLess(Candidate(i), SeenBy(i, j).position, safeDistance)) =>
              \/ cars[i].id \in resets'
              \/ AdvancedAlongAxis(i)]_vars

\* a car is past the near edge while its light is red and its turn is not
\* straight ahead, and has moved
C10_Witness ==
    \E i \in CarIndex :
        /\ allowMove(cars[i])
        /\ cars[i].state = "moving"
        /\ trafficLights[cars[i].direction].state = "red"
        /\ cars[i].targetPosition # Vec(cars[i].position.x, cars[i].targetPosition.z)
        /\ cars[i].targetPosition # Vec(cars[i].targetPosition.x, cars[i].position.z)
        /\ effectPending = "none"

\* C11: under weak fairness of the frame driver and of the scheduler every
\* car is reset infinitely often: there is always a later frame that resets
\* the car of each approach.
C11_CarsLoopForever ==
    \A d \in Directions :
        []<>(\E i \in CarIndex : cars[i].direction = d /\ cars[i].id \in resets)

\* C12: whenever updateCars runs, the light states it reads are the ones
\* derived from the scheduler's current axis and phase (the lights of the
\* active axis show the phase, the others red): no animate() call comes
\* between a change of the scheduler state and the light-state effect.
C12_LightsAgreeAtEveryFrame ==
    [][IsAnimateStep =>
          trafficLights = lightStates(trafficLights, trafficPhase, trafficDirection)]_vars

\* C13: the full light cycle, from one onset of horizontal green to the next
\* onset of horizontal green, takes 15 seconds: the scheduler tick that
\* starts horizontal green is the 15th since the previous onset, and
\* horizontal green starts again no later than that.
C13_CycleIsFifteenSeconds ==
    [][/\ (~HorizontalGreen /\ HorizontalGreen') => sinceOnset + 1 = AnnouncedCycle
       /\ sinceOnset' <= AnnouncedCycle]_vars

\* C14: with one car per approach, the turnDirection a car drives on its
\* successive laps, the lap it is created with included, is right, left,
\* straight, right, ...: on the lap after its k-th reset the car has the
\* k-th value after right in the cycle, so that no value is driven on two
\* consecutive laps.
C14_TurnPatternPerCar ==
    \A i \in CarIndex :
        cars[i].turnDirection = patterns[(resetCount[cars[i].direction] % Len(patterns)) + 1]

\* C15: after the cleanup function has run, no callback registered by the
\* simulation fires again: every step of the program (a frame, a scheduler
\* tick, an effect, a document listener) is taken while the component is
\* mounted.
C15_NoCallbackAfterTeardown == [][mounted]_vars

\* C16: a step that sets the camera mode or toggles night mode leaves every
\* car's fields, every light's state and nextTurnIndex, and the scheduler's
\* axis, phase and timer unchanged, wherever it comes between the scheduler
\* ticks, the frames and the light-state effect.
C16_UICommandsLeaveCore ==
    [][(cameraMode' # cameraMode \/ isNightMode' # isNightMode) => UNCHANGED coreVars]_vars

\* C17: the set of car ids is the set created at start, one car per
\* approach, and every car has the id and the direction it was created with,
\* after any sequence of frames, scheduler ticks and resets.
C17_FixedFleet ==
    /\ {cars[i].id : i \in CarIndex} =
           {createInitialCars[i].id : i \in 1..Len(createInitialCars)}
    /\ Len(cars) = Len(createInitialCars)
    /\ \A i \in CarIndex, j \in 1..Len(createInitialCars) :
           cars[i].id = createInitialCars[j].id =>
               cars[i].direction = createInitialCars[j].direction
    /\ \A d \in Directions :
           Cardinality({i \in CarIndex : cars[i].direction = d}) = 1

\* every approach has had a reset, and the car that has just been reset is
\* back at its spawn while another car is on its way
C17_Witness ==
    /\ \A d \in Directions : trafficLights[d].nextTurnIndex > 0
    /\ \E i, j \in CarIndex :
           /\ cars[i].id \in resets
           /\ cars[i].position = startPosition(cars[i].direction)
           /\ cars[j].state = "moving"

\* C19: while the light of its approach is green before and after a frame,
\* a released car (isWaiting = FALSE) that has not crossed the near edge
\* and has no other car in its way stays released in that frame and
\* advances by CAR_SPEED * delta; it is not set back to waiting.
C19_NoOscillationOnApproach ==
    [][\A i \in CarIndex :
          (/\ IsFrameStep
           /\ trafficLights[cars[i].direction].state = "green"
           /\ trafficLights'[cars[i].direction].state = "green"
           /\ ~cars[i].isWaiting
           /\ ~allowMove(cars[i])
           /\ ~collisionDetected(CarsSeenBy(i), i, frameDelta)) =>
              /\ ~cars'[i].isWaiting
              /\ cars'[i].state # "waiting"
              /\ AdvancedAlongAxis(i)]_vars

\* C20: a frame resets a car only after the car has passed through the
\* intersection (its committed position is beyond the far edge), and it
\* resets a north or south car whose turnDirection is left or right only
\* at the car's exit threshold, the end of the road; the rule 'within 1.0
\* of targetPosition' resets only cars that drive straight on.
C20_ProximityResetOnlyStraight ==
    [][\A i \in CarIndex :
          (IsFrameStep /\ cars[i].id \in resets') =>
              /\ AxisCoordinate(cars[i]) + CAR_SPEED * frameDelta > EDGE
              /\ (cars[i].direction \in {"north", "south"}
                    /\ cars[i].turnDirection # "straight") =>
                       AxisCoordinate(cars[i]) + CAR_SPEED * frameDelta >= ROAD_END]_vars

\* C21: whenever moveCar detects no collision, the position it commits is
\* the candidate position it has checked: the car's position plus the unit
\* vector towards targetPosition scaled by CAR_SPEED * delta, for every
\* direction and turnDirection.
C21_CommitIsCheckedPosition ==
    [][\A i \in CarIndex :
          (IsFrameStep /\ Unhindered(i) /\ cars[i].id \notin resets') =>
              cars'[i].position = CheckedPosition(i)]_vars

\* C22 (as stated): a car that has not crossed the near edge, is within
\* 0.5 of the stop line and whose light is not green is held by the frame:
\* isWaiting = TRUE, state waiting, position, targetPosition and
\* turnDirection unchanged; a car before the near edge whose light is not
\* green and which is farther than 0.5 from the stop line is released and
\* moved.
C22_Original ==
    [][\A i \in CarIndex :
          (IsFrameStep /\ ~allowMove(cars[i]) /\ LightNotGreen(i)) =>
              IF atCrossing(cars[i]) THEN Held(i)
              ELSE ~cars'[i].isWaiting /\ AdvancedAlongAxis(i)]_vars

\* C22 (amended): the car within 0.5 of the stop line is held as stated; the
\* car farther than 0.5 from the stop line is released and moveCar runs for
\* it: it advances by CAR_SPEED * delta with state moving, or it is vetoed
\* by the collision check and stays where it is with state stopped, or the
\* move ends in a reset.
C22_HoldAtStopLine ==
    [][\A i \in CarIndex :
          (IsFrameStep /\ ~allowMove(cars[i]) /\ LightNotGreen(i)) =>
              IF atCrossing(cars[i]) THEN Held(i)
              ELSE \/ cars[i].id \in resets'
                   \/ /\ ~cars'[i].isWaiting
                      /\ IF collisionDetected(AsReleased(i), i, frameDelta)
                         THEN /\ cars'[i].position = cars[i].position
                              /\ cars'[i].state = "stopped"
                         ELSE /\ AdvancedAlongAxis(i)
                              /\ cars'[i].state = "moving"]_vars

\* a car has rolled up to the stop line on red and is held there
C22_Witness ==
    \E i \in CarIndex :
        /\ ~allowMove(cars[i])
        /\ atCrossing(cars[i])
        /\ trafficLights[cars[i].direction].state = "red"
        /\ effectPending = "none"
        /\ cars[i].isWaiting
        /\ cars[i].state = "waiting"
        /\ cars[i].targetPosition = TargetOf(cars[i].direction, cars[i].turnDirection)

\* C23: when moveCar is called for a car and another non-waiting car is
\* within 2.0 of the candidate position, the frame leaves the car's
\* position unchanged, sets its state to stopped and isWaiting to FALSE,
\* and does not reset it.
C23_VetoEffect ==
    [][\A i \in CarIndex :
          (IsFrameStep /\ Released(i) /\ Blocked(i)) =>
              /\ cars'[i].position = cars[i].position
              /\ cars'[i].state = "stopped"
              /\ ~cars'[i].isWaiting
              /\ cars[i].id \notin resets'
              /\ cars'[i].turnDirection = cars[i].turnDirection]_vars

\* a car has been vetoed by a car that is on the move: it is stopped, not
\* waiting, and its candidate position is within 2.0 of the moving car
C23_Witness ==
    \E i, j \in CarIndex :
        /\ i # j
        /\ cars[i].state = "stopped"
        /\ ~cars[i].isWaiting
        /\ cars[j].state = "moving"
        /\ DistanceLess(Candidate(i), cars[j].position, safeDistance)

\* C24: moveCar runs again for a stopped car in every following frame: the
\* frame leaves the car stopped where it is (vetoed again), or commits a
\* move (state moving, advanced by CAR_SPEED * delta, or reset at the end
\* of the move); no frame puts a stopped car into state waiting.
C24_StoppedCarReattempts ==
    [][\A i \in CarIndex :
          (IsFrameStep /\ cars[i].state = "stopped") =>
              \/ cars[i].id \in resets'
              \/ /\ cars'[i].state = "stopped"
                 /\ ~cars'[i].isWaiting
                 /\ cars'[i].position = cars[i].position
              \/ /\ cars'[i].state = "moving"
                 /\ ~cars'[i].isWaiting
                 /\ AdvancedAlongAxis(i)]_vars

\* C25: at every frame boundary each car with isWaiting = FALSE has the
\* targetPosition that the table of setCarTarget gives for its direction
\* and turnDirection; a frame that takes a car from isWaiting = TRUE to
\* isWaiting = FALSE has recomputed the target before the move: the car has
\* moved only if the position checked with the recomputed target is free.
C25_TargetFollowsTable ==
    /\ \A i \in CarIndex :
          ~cars[i].isWaiting =>
              cars[i].targetPosition = TargetOf(cars[i].direction, cars[i].turnDirection)
    /\ [][\A i \in CarIndex :
             /\ ~cars'[i].isWaiting =>
                   cars'[i].targetPosition =
                       TargetOf(cars'[i].direction, cars'[i].turnDirection)
             /\ (cars[i].isWaiting /\ ~cars'[i].isWaiting) =>
                   /\ cars'[i].targetPosition =
                          TargetOf(cars[i].direction, cars[i].turnDirection)
                   /\ cars'[i].position # cars[i].position => ~Blocked(i)]_vars

\* a car that was reset with the turn left has been released again and is
\* on its way to the target of its new turn
C25_Witness ==
    \E i \in CarIndex :
        /\ ~cars[i].isWaiting
        /\ cars[i].state = "moving"
        /\ cars[i].turnDirection = "left"
        /\ cars[i].position # startPosition(cars[i].direction)
        /\ cars[i].targetPosition = TargetOf(cars[i].direction, "left")

\* C26: the active axis changes exactly in the scheduler tick at which a
\* yellow phase expires, and then to the other axis; the tick from green to
\* yellow, the ticks that only count down, and every other step leave it
\* unchanged.
C26_AxisFlipsAtYellowExpiry ==
    [][/\ (trafficDirection' # trafficDirection) <=>
             (IsSchedulerStep /\ trafficPhase = "yellow" /\ phaseTimer <= 1)
       /\ (trafficDirection' # trafficDirection) =>
             /\ {trafficDirection, trafficDirection'} = {"horizontal", "vertical"}
             /\ trafficPhase' = "green"
             /\ phaseTimer' = GREEN_TIME]_vars

\* the yellow of the vertical axis has expired: the axis is horizontal again
\* after a full cycle and the light-state effect has not run yet
C26_Witness ==
    /\ tickCount = 0
    /\ sinceOnset = 0
    /\ trafficDirection = "horizontal"
    /\ trafficPhase = "green"
    /\ phaseTimer = GREEN_TIME
    /\ effectPending = "scheduled"
    /\ trafficLights["north"].state = "yellow"

\* C27: the scheduler's phase is green or yellow in every state between
\* scheduler ticks, so the red branch of the transition is never taken,
\* and the lights of the active axis show green or yellow, never
\* red, once the light-state effect has run.
C27_RedNeverPersists ==
    /\ trafficPhase \in {"green", "yellow"}
    /\ (started /\ effectPending = "none") =>
          \A d \in DOMAIN trafficLights :
              isActive(trafficDirection, d) => trafficLights[d].state \in {"green", "yellow"}

\* the yellow of the horizontal axis has just expired: the scheduler shows
\* green for the vertical axis and the light-state effect is still due
C27_Witness ==
    /\ tickCount = GREEN_TIME + YELLOW_TIME
    /\ trafficDirection = "vertical"
    /\ trafficPhase = "green"
    /\ phaseTimer = GREEN_TIME
    /\ effectPending = "scheduled"
    /\ trafficLights["east"].state = "yellow"

\* C28: two cars that travel on different axes, one north or south and one
\* east or west, are never inside the intersection box at the same time.
C28_CrossTrafficExclusion ==
    \A i, j \in CarIndex :
        (cars[i].direction \in {"north", "south"} /\ cars[j].direction \in {"east", "west"}) =>
            ~(InBox(cars[i]) /\ InBox(cars[j]))

\* C29: every light's nextTurnIndex is 0, 1 or 2; a step that resets a car
\* of the light's own direction advances it by 1 modulo 3, and every other
\* step (a scheduler tick, the light-state effect, a frame without a reset,
\* a reset on another approach) leaves it unchanged.
C29_NextTurnIndexOwnedByReset ==
    /\ \A d \in DOMAIN trafficLights : trafficLights[d].nextTurnIndex \in 0..(Len(patterns) - 1)
    /\ [][\A d \in DOMAIN trafficLights :
             trafficLights'[d].nextTurnIndex =
                 IF IsFrameStep /\ ResetsOn(d)
                 THEN (trafficLights[d].nextTurnIndex + 1) % Len(patterns)
                 ELSE trafficLights[d].nextTurnIndex]_vars

\* the index of one light has gone round to 0 with the reset of its car
\* while the index of another light is at 1 and a light-state effect and
\* scheduler ticks have come in between
C29_Witness ==
    \E i, j \in CarIndex :
        /\ cars[i].id \in resets
        /\ trafficLights[cars[i].direction].nextTurnIndex = 0
        /\ cars[j].id \notin resets
        /\ trafficLights[cars[j].direction].nextTurnIndex = 1
        /\ trafficDirection = "vertical"

\* C31: at every frame boundary each car's state is one of waiting, moving
\* and stopped (never turning), and it is waiting exactly when the car's
\* isWaiting flag is set.
C31_StateAndFlagAgree ==
    \A i \in CarIndex :
        /\ cars[i].state \in {"waiting", "moving", "stopped"}
        /\ (cars[i].state = "waiting") <=> cars[i].isWaiting

\* after some frames one car has moved and another has been
\* stopped by the collision check, both with the flag cleared
C31_Witness ==
    \E i, j \in CarIndex :
        /\ cars[i].state = "moving" /\ ~cars[i].isWaiting
        /\ cars[j].state = "stopped" /\ ~cars[j].isWaiting

\* C32: the phase timer is an integer in 1..8 in every state, it is at most
\* 3 while the phase is yellow, a run of the scheduler that is not a phase
\* transition lowers it by exactly 1 and leaves phase and axis alone, and
\* no other step changes it.
C32_TimerBounds ==
    /\ [](/\ phaseTimer \in 1..GREEN_TIME
          /\ (trafficPhase = "yellow" => phaseTimer <= YELLOW_TIME))
    /\ [][/\ (IsSchedulerStep /\ phaseTimer > 1) =>
                (/\ phaseTimer' = phaseTimer - 1
                 /\ trafficPhase' = trafficPhase
                 /\ trafficDirection' = trafficDirection)
          /\ (/\ IsSchedulerStep
              /\ trafficPhase' = trafficPhase
              /\ trafficDirection' = trafficDirection) =>
                (phaseTimer' = phaseTimer - 1)
          /\ (~IsSchedulerStep) => (phaseTimer' = phaseTimer)]_vars

\* the yellow of the vertical axis has been counted down to its last second
C32_Witness ==
    /\ trafficDirection = "vertical"
    /\ trafficPhase = "yellow"
    /\ phaseTimer = 1
    /\ tickCount = CYCLE - 1

====
